---- MODULE Spec2Model ----
(***************************************************************************)
(* Verification model of osu_collection_factory.                           *)
(*                                                                         *)
(*   SpecGateway  : ApiSentry.make_api_request behind util.limit, with the *)
(*                  lazily refreshed credential (api_sentry.py, util.py).  *)
(*   SpecBatch    : ApiSentry.get_beatmaps_from_map_ids and                *)
(*                  ParseOsuLinksFromFile.map_ids_to_md5s.                 *)
(*   SpecPipeline : main() case 2: parse_plaintext then                    *)
(*                  convert_md5s_to_db.                                    *)
(*   SpecWriter   : md5_conversion.convert_md5s_to_db byte by byte.        *)
(***************************************************************************)
EXTENDS Integers, Sequences, FiniteSets, TLC

(***************************************************************************)
(* Bounds.  The source decorates make_api_request with util.limit(60, 60); *)
(* the gateway is explored with a scaled-down permit pool and window.      *)
(***************************************************************************)
limit == 2
every == 2
NumCallers == 2

\* Threads calling the osu-API methods of one ApiSentry
Callers == 1..NumCallers

VARIABLES
    \* ---- gateway (api_sentry.py, util.py) ----
    pc,          \* per caller: position inside the call
    hdr,         \* per caller: the headers argument built at the call site
    semaphore,   \* threading.Semaphore value in limit_decorator
    timers,      \* pending threading.Timer objects, by seconds remaining
    admitted,    \* admissions into the wrapped function, by age in seconds
    expired,     \* time.time() >= ApiSentry.invalid_at
    starting,    \* ApiSentry.starting
    \* ---- parser and main (osu_link_parser.py, main.py, api_sentry.py) ----
    p_pc,        \* position of main() case 2 / parse_plaintext
    settings,    \* util.Settings: the two ignore flags and collection_name
    f_lines,     \* parse_ids_from_plaintext_file: f_lines, a list of characters
    set_ids,     \* ParseOsuLinksFromFile.set_ids
    map_ids,     \* ParseOsuLinksFromFile.map_ids
    md5s,        \* ParseOsuLinksFromFile.md5s
    text_ids,    \* the item references classified from the input text
    sets_left,   \* set_ids_to_map_ids: elements the for loop has not visited
    failed_sets, \* set references whose gateway call raised
    ids,         \* get_beatmaps_from_map_ids: map_ids = list(map_ids)
    ids_left,    \* get_beatmaps_from_map_ids: ids_left
    iteration,   \* get_beatmaps_from_map_ids: iteration
    maps,        \* get_beatmaps_from_map_ids: maps
    calls,       \* payloads of the gateway calls issued for "beatmaps"
    error,       \* the exception that reached main(), "none" if none
    \* ---- writer (md5_conversion.py) ----
    w_pc,        \* position inside convert_md5s_to_db
    name,        \* settings["collection_name"], as code points
    w_md5s,      \* the md5s argument
    disk         \* the destination file: NoFile or its bytes

gvars == <<pc, hdr, semaphore, timers, admitted, expired, starting>>

pvars == <<p_pc, settings, f_lines, set_ids, map_ids, md5s, text_ids,
           sets_left, failed_sets, ids, ids_left, iteration, maps, calls, error>>

wvars == <<w_pc, name, w_md5s, disk>>

vars == <<gvars, pvars, wvars>>

Sum(f, S) ==
    LET RECURSIVE Acc(_)
        Acc(T) == IF T = {} THEN 0
                  ELSE LET x == CHOOSE y \in T : TRUE
                       IN f[x] + Acc(T \ {x})
    IN Acc(S)

(***************************************************************************)
(* util.limit: the permit semaphore and the per-call return timers.        *)
(***************************************************************************)
\* threading.Timer(every, semaphore.release): delay before the permit returns
TimerDelay == every

NoTimers == [r \in 0..every |-> 0]
NoAdmissions == [a \in 0..(every - 1) |-> 0]

\* Mutant of StartTimers: the permit can go back as soon as the call completes
StartTimersNoDelay(t, n) == [t EXCEPT ![0] = @ + n]

\* Mutant of StartTimers: the finally block starts no timer
StartTimersLost(t, n) == t

\* timer.start() in the finally block of wrapper, n timers at once
StartTimers(t, n) == [t EXCEPT ![TimerDelay] = @ + n]

\* semaphore.acquire() succeeded: remember the admission for the rolling window
Admit(a) == [a EXCEPT ![0] = @ + 1]

(***************************************************************************)
(* ApiSentry.  Tokens are opaque strings that are only ever compared: a    *)
(* bearer token held in a headers dict is either the one ApiSentry.token   *)
(* holds now ("cached") or one that a later start() has replaced           *)
(* ("superseded").                                                         *)
(***************************************************************************)
NoHdr == [bearer |-> "none", expiredAtCall |-> FALSE]

\* OSU_AUTHENTICATION_HEADER: {"Authorization": f"Bearer {self.token}"}
OSU_AUTHENTICATION_HEADER == [bearer |-> "cached", expiredAtCall |-> expired]

\* self.token = <new token>: every header built earlier now holds an old token
Supersede(h) ==
    [c \in Callers |->
        IF h[c].bearer = "cached" THEN [h[c] EXCEPT !.bearer = "superseded"]
        ELSE h[c]]

(***************************************************************************)
(* State after ApiSentry.__init__: start() has run once, its credential    *)
(* exchange went through the rate-limited make_api_request.                *)
(***************************************************************************)
GatewayConstructed ==
    /\ pc = [c \in Callers |-> "idle"]
    /\ hdr = [c \in Callers |-> NoHdr]
    /\ semaphore = limit - 1
    /\ timers = StartTimers(NoTimers, 1)
    /\ admitted = Admit(NoAdmissions)
    /\ expired = FALSE
    /\ starting = FALSE

\* get_beatmaps_from_set_id & co.: headers=self.OSU_AUTHENTICATION_HEADER is
\* evaluated at the call site, before make_api_request is entered.
Call(c) ==
    /\ pc[c] = "idle"
    /\ hdr' = [hdr EXCEPT ![c] = OSU_AUTHENTICATION_HEADER]
    /\ pc' = [pc EXCEPT ![c] = "acquire"]
    /\ UNCHANGED <<semaphore, timers, admitted, expired, starting>>
    /\ UNCHANGED <<pvars, wvars>>

\* wrapper: semaphore.acquire()
Acquire(c) ==
    /\ pc[c] = "acquire"
    /\ semaphore > 0
    /\ semaphore' = semaphore - 1
    /\ admitted' = Admit(admitted)
    /\ pc' = [pc EXCEPT ![c] = "check"]
    /\ UNCHANGED <<hdr, timers, expired, starting>>
    /\ UNCHANGED <<pvars, wvars>>

\* make_api_request line 81: osu_api_request and not starting and expired
NeedsRefresh == ~starting /\ expired

Check(c) ==
    /\ pc[c] = "check"
    /\ pc' = [pc EXCEPT ![c] = IF NeedsRefresh THEN "start" ELSE "request"]
    /\ UNCHANGED <<hdr, semaphore, timers, admitted, expired, starting>>
    /\ UNCHANGED <<pvars, wvars>>

\* start(): self.starting = True, then authenticate_osu() is entered
StartBegin(c) ==
    /\ pc[c] = "start"
    /\ starting' = TRUE
    /\ pc' = [pc EXCEPT ![c] = "auth_acquire"]
    /\ UNCHANGED <<hdr, semaphore, timers, admitted, expired>>
    /\ UNCHANGED <<pvars, wvars>>

\* authenticate_osu -> make_api_request(osu_api_request=False): the nested
\* call takes a second permit from the same semaphore
AuthAcquire(c) ==
    /\ pc[c] = "auth_acquire"
    /\ semaphore > 0
    /\ semaphore' = semaphore - 1
    /\ admitted' = Admit(admitted)
    /\ pc' = [pc EXCEPT ![c] = "auth_request"]
    /\ UNCHANGED <<hdr, timers, expired, starting>>
    /\ UNCHANGED <<pvars, wvars>>

\* The credential exchange returns and start() finishes.  ok: the nested
\* wrapper starts its timer, authenticate_osu returns the new token and
\* start() (lines 41-45) stores token, invalid_at = now + expires_in and
\* starting = False.  Otherwise the exception leaves authenticate_osu,
\* start() (starting stays True) and the outer make_api_request, so both
\* wrappers start their timers.
AuthRequest(c, ok) ==
    /\ pc[c] = "auth_request"
    /\ IF ok
       THEN /\ hdr' = Supersede(hdr)
            /\ expired' = FALSE
            /\ starting' = FALSE
            /\ timers' = StartTimers(timers, 1)
            /\ pc' = [pc EXCEPT ![c] = "request"]
       ELSE /\ timers' = StartTimers(timers, 2)
            /\ pc' = [pc EXCEPT ![c] = "idle"]
            /\ hdr' = [hdr EXCEPT ![c] = NoHdr]
            /\ UNCHANGED <<expired, starting>>
    /\ UNCHANGED <<semaphore, admitted>>
    /\ UNCHANGED <<pvars, wvars>>

\* requests.get(url, headers=headers, ...) sends hdr[c], then returns or
\* raises; either way the wrapper's finally block starts the timer that will
\* return the permit.
Request(c) ==
    /\ pc[c] = "request"
    /\ timers' = StartTimers(timers, 1)
    /\ hdr' = [hdr EXCEPT ![c] = NoHdr]
    /\ pc' = [pc EXCEPT ![c] = "idle"]
    /\ UNCHANGED <<semaphore, admitted, expired, starting>>
    /\ UNCHANGED <<pvars, wvars>>

\* A timer whose delay has elapsed runs semaphore.release()
TimerFire ==
    /\ timers[0] > 0
    /\ timers' = [timers EXCEPT ![0] = @ - 1]
    /\ semaphore' = semaphore + 1
    /\ UNCHANGED <<pc, hdr, admitted, expired, starting>>
    /\ UNCHANGED <<pvars, wvars>>

\* One second passes: timers count down, admissions age out of the window
Tick ==
    /\ \/ \E r \in 1..every : timers[r] > 0
       \/ \E a \in 0..(every - 1) : admitted[a] > 0
    /\ timers' = [r \in 0..every |->
                    IF r = 0 THEN timers[0] + timers[1]
                    ELSE IF r = every THEN 0 ELSE timers[r + 1]]
    /\ admitted' = [a \in 0..(every - 1) |->
                    IF a = 0 THEN 0 ELSE admitted[a - 1]]
    /\ UNCHANGED <<pc, hdr, semaphore, expired, starting>>
    /\ UNCHANGED <<pvars, wvars>>

\* Wall-clock time reaches invalid_at
Expire ==
    /\ ~expired
    /\ expired' = TRUE
    /\ UNCHANGED <<pc, hdr, semaphore, timers, admitted, starting>>
    /\ UNCHANGED <<pvars, wvars>>

NextGateway ==
    \/ \E c \in Callers : Call(c)
    \/ \E c \in Callers : Acquire(c)
    \/ \E c \in Callers : Check(c)
    \/ \E c \in Callers : StartBegin(c)
    \/ \E c \in Callers : AuthAcquire(c)
    \/ \E c \in Callers, ok \in BOOLEAN : AuthRequest(c, ok)
    \/ \E c \in Callers : Request(c)
    \/ TimerFire
    \/ Tick
    \/ Expire

\* No parser and no writer run next to the gateway
ParserIdle ==
    /\ p_pc = "idle"
    /\ settings = [ignore_invalid_set_ids |-> FALSE,
                   ignore_invalid_map_ids |-> FALSE]
    /\ f_lines = <<>>
    /\ set_ids = {} /\ map_ids = {} /\ md5s = {} /\ text_ids = {}
    /\ sets_left = {} /\ failed_sets = {}
    /\ ids = <<>> /\ ids_left = 0 /\ iteration = 0 /\ maps = <<>>
    /\ calls = <<>> /\ error = "none"

WriterIdle ==
    /\ w_pc = "idle" /\ name = <<>> /\ w_md5s = <<>>
    /\ disk = [exists |-> FALSE, bytes |-> <<>>]  \* no file at the destination

InitGateway == GatewayConstructed /\ ParserIdle /\ WriterIdle

SpecGateway == InitGateway /\ [][NextGateway]_vars

(***************************************************************************)
(* Gateway claims                                                          *)
(***************************************************************************)
Blocked(c) == pc[c] \in {"acquire", "auth_acquire"} /\ semaphore = 0

\* some permit is still on its way back: a timer is pending, or a caller
\* holding a permit can still run to the finally block that starts one
PermitComing ==
    \/ \E r \in 0..every : timers[r] > 0
    \/ \E c \in Callers :
          pc[c] \in {"check", "start", "auth_request", "request"}

\* C1: every caller of make_api_request is eventually served: no reachable
\* state has a caller waiting on the permit semaphore while no permit is free
\* and none can ever come back (no pending timer, every permit holder itself
\* waiting on the semaphore).
C1_NoCallerBlocksForever ==
    \A c \in Callers : Blocked(c) => PermitComing

\* C2: at most `limit` invocations of make_api_request (credential exchanges
\* included) are admitted within any rolling interval of `every` seconds.
C2_RollingWindow ==
    Sum(admitted, 0..(every - 1)) <= limit

\* C2 witness: the window is full and every permit sits on a running return
\* timer of a completed call, while a caller waits on the semaphore.
C2_Witness ==
    /\ Sum(admitted, 0..(every - 1)) = limit
    /\ semaphore = 0
    /\ \E c \in Callers : pc[c] = "acquire"
    /\ Sum(timers, 1..every) = limit

\* The step in which caller c's request leaves (requests.get / requests.post)
Sends(c) == pc[c] = "request" /\ pc'[c] = "idle"

\* C3: an osu-API call made while the cached credential has expired sends
\* its request with the refreshed token in the Authorization header (the
\* token the sentry caches, unexpired, when the request leaves), not with
\* the expired one.
C3_RequestCarriesRefreshedToken ==
    [][\A c \in Callers :
          (Sends(c) /\ hdr[c].expiredAtCall) =>
              (hdr[c].bearer = "cached" /\ ~expired)]_vars

\* Caller c is inside start(), entered from the expiry check at line 81-83
Refreshing(c) == pc[c] \in {"start", "auth_acquire", "auth_request"}

\* C20: when several callers concurrently call make_api_request while the
\* credential is expired, only one credential refresh happens for that
\* expiry: at no time are two callers inside start() (the expiry is cleared
\* only when a refresh completes, so two callers inside start() refresh for
\* the same expiry).
C20_SingleRefresh ==
    Cardinality({c \in Callers : Refreshing(c)}) <= 1

(***************************************************************************)
(* The remote catalog, as seen through the gateway.  IDs classified from   *)
(* text are strings (re match groups), IDs returned by the service are     *)
(* integers; Python keeps "2" and 2 apart in a set.                        *)
(***************************************************************************)
MaxIds == 101
BatchSize == 50
ChecksumLen == 32

StrId(v) == [t |-> "str", v |-> v]
IntId(v) == [t |-> "int", v |-> v]

Min(a, b) == IF a < b THEN a ELSE b

\* The checksum of item v: 32 hex characters
Md5Of(v) == [i \in 1..ChecksumLen |-> 97 + (v % 3)]

\* Items the service does not know are absent from its responses
InCatalog(v) == v % 4 # 0

\* RemoteItemDetail as a JSON object
Detail(v) == [kind |-> "object", beatmap_id |-> v, file_md5 |-> Md5Of(v)]

\* The JSON body returned for GET beatmaps with payload ids[]: the details
\* of the known items, in request order
BeatmapsResponse(payload) ==
    LET known == SelectSeq(payload, LAMBDA x : InCatalog(x.v))
    IN [kind |-> "list", items |-> [i \in 1..Len(known) |-> Detail(known[i].v)]]

\* The JSON body returned for GET beatmapsets with payload id: summaries,
\* beatmap_id 0 standing for an element that lacks the field (None)
SetMembers(v) == IF v = 10 THEN <<1, 0, 2>> ELSE <<2, 3>>

\* Python slice s[a:b] on a list (0-based, clamped to the list)
Slice(s, a, b) ==
    LET hi == Min(b, Len(s))
    IN IF a >= hi THEN <<>> ELSE [i \in 1..(hi - a) |-> s[a + i]]

\* Mutant of ListsOf: the list may repeat an element of the set
ListsOfWithRepeats(S) == [1..Cardinality(S) -> S]

\* list(a_set): some order of the elements
ListsOf(S) ==
    {f \in [1..Cardinality(S) -> S] : \A i, j \in 1..Cardinality(S) :
                                          i # j => f[i] # f[j]}

(***************************************************************************)
(* ParseOsuLinksFromFile.parse_plaintext (main() case 2)                   *)
(***************************************************************************)
\* What the classification of the input text can yield
TextSetIds == {StrId(10), StrId(11)}
TextMapIds == {StrId(2), StrId(4)}

ParserConstructed ==
    /\ p_pc = "parse"
    /\ settings \in [ignore_invalid_set_ids : BOOLEAN,
                     ignore_invalid_map_ids : BOOLEAN]
    /\ set_ids = {} /\ map_ids = {} /\ md5s = {} /\ text_ids = {}
    /\ sets_left = {} /\ failed_sets = {}
    /\ ids = <<>> /\ ids_left = 0 /\ iteration = 0 /\ maps = <<>>
    /\ calls = <<>> /\ error = "none"

\* parse_ids_from_plaintext_file: the matches end up in set_ids and map_ids;
\* parse_plaintext then enters set_ids_to_map_ids
ParseIds(S, M) ==
    /\ p_pc = "parse"
    /\ set_ids' = set_ids \cup S
    /\ map_ids' = map_ids \cup M
    /\ text_ids' = M
    /\ sets_left' = set_ids \cup S
    /\ p_pc' = "sets"
    /\ UNCHANGED f_lines
    /\ UNCHANGED <<settings, md5s, failed_sets, ids, ids_left, iteration,
                   maps, calls, error>>
    /\ UNCHANGED <<gvars, wvars>>

\* Mutant of OnSetError: the failure is always swallowed
OnSetErrorAlwaysContinue(ignore) == "continue"

\* Mutant of OnSetError: the failure is always raised
OnSetErrorAlwaysRaise(ignore) == "raise"

\* set_ids_to_map_ids lines 114-118: except Exception
OnSetError(ignore) == IF ignore THEN "continue" ELSE "raise"

\* set_ids_to_map_ids lines 120-131: the beatmap_ids of the summaries that
\* carry one
BeatmapIds(summaries) ==
    {IntId(summaries[i]) : i \in {j \in 1..Len(summaries) : summaries[j] # 0}}

\* One iteration of `for set_id in self.set_ids`
SetIdStep(set_id, ok) ==
    /\ p_pc = "sets"
    /\ set_id \in sets_left
    /\ IF ok
       THEN /\ map_ids' = map_ids \cup BeatmapIds(SetMembers(set_id.v))
            /\ sets_left' = sets_left \ {set_id}
            /\ UNCHANGED <<failed_sets, p_pc, error>>
       ELSE /\ failed_sets' = failed_sets \cup {set_id}
            /\ IF OnSetError(settings.ignore_invalid_set_ids) = "continue"
               THEN /\ sets_left' = sets_left \ {set_id}
                    /\ UNCHANGED <<p_pc, error>>
               ELSE /\ p_pc' = "raised"
                    /\ error' = "set"
                    /\ UNCHANGED sets_left
            /\ UNCHANGED map_ids
    /\ UNCHANGED f_lines
    /\ UNCHANGED <<settings, set_ids, md5s, text_ids, ids, ids_left,
                   iteration, maps, calls>>
    /\ UNCHANGED <<gvars, wvars>>

\* The for loop is exhausted; map_ids_to_md5s calls
\* get_beatmaps_from_map_ids(list(self.map_ids)), lines 297-301
EnterMapIdsToMd5s ==
    /\ p_pc = "sets"
    /\ sets_left = {}
    /\ ids' \in ListsOf(map_ids)
    /\ ids_left' = Cardinality(map_ids)
    /\ iteration' = 0
    /\ maps' = <<>>
    /\ p_pc' = "fetch"
    /\ UNCHANGED f_lines
    /\ UNCHANGED <<settings, set_ids, map_ids, md5s, text_ids, sets_left,
                   failed_sets, calls, error>>
    /\ UNCHANGED <<gvars, wvars>>

(***************************************************************************)
(* ApiSentry.get_beatmaps_from_map_ids and map_ids_to_md5s                 *)
(***************************************************************************)
\* Mutant of NextIdsLeft: the loop counter steps by one more than a batch
NextIdsLeftOffByOne(n) == n - (BatchSize + 1)

\* line 313: ids_left -= 50
NextIdsLeft(n) == n - BatchSize

\* line 303: payload = {"ids[]": map_ids[iteration*50:iteration*50+50]}
Payload(list, it) == Slice(list, it * BatchSize, it * BatchSize + BatchSize)

\* One iteration of `while ids_left > 0`: the gateway call returns a body,
\* which is appended to maps, or raises
FetchBatch(ok) ==
    /\ p_pc = "fetch"
    /\ ids_left > 0
    /\ calls' = Append(calls, Payload(ids, iteration))
    /\ IF ok
       THEN /\ maps' = Append(maps, BeatmapsResponse(Payload(ids, iteration)))
            /\ ids_left' = NextIdsLeft(ids_left)
            /\ iteration' = iteration + 1
            /\ UNCHANGED <<p_pc, error>>
       ELSE /\ p_pc' = "raised"
            /\ error' = "map"
            /\ UNCHANGED <<maps, ids_left, iteration>>
    /\ UNCHANGED f_lines
    /\ UNCHANGED <<settings, set_ids, map_ids, md5s, text_ids, sets_left,
                   failed_sets, ids>>
    /\ UNCHANGED <<gvars, wvars>>

\* line 316: return maps
FetchReturn ==
    /\ p_pc = "fetch"
    /\ ids_left <= 0
    /\ p_pc' = "md5"
    /\ UNCHANGED f_lines
    /\ UNCHANGED <<settings, set_ids, map_ids, md5s, text_ids, sets_left,
                   failed_sets, ids, ids_left, iteration, maps, calls, error>>
    /\ UNCHANGED <<gvars, wvars>>

\* beatmap["file_md5"] is defined on a JSON object only
HasFileMd5(beatmap) == beatmap.kind = "object"

\* map_ids_to_md5s lines 138-139: `for beatmap in beatmaps:
\* self.md5s.add(beatmap["file_md5"])`, up to the first element that cannot
\* be subscripted that way
Md5Loop ==
    /\ p_pc = "md5"
    /\ LET bad == {i \in 1..Len(maps) : ~HasFileMd5(maps[i])}
           stop == IF bad = {} THEN Len(maps) + 1
                   ELSE CHOOSE i \in bad : \A j \in bad : i <= j
       IN /\ md5s' = md5s \cup {maps[i].file_md5 : i \in 1..(stop - 1)}
          /\ IF bad = {}
             THEN p_pc' = "parsed" /\ error' = error
             ELSE p_pc' = "raised" /\ error' = "type"
    /\ UNCHANGED f_lines
    /\ UNCHANGED <<settings, set_ids, map_ids, text_ids, sets_left,
                   failed_sets, ids, ids_left, iteration, maps, calls>>
    /\ UNCHANGED <<gvars, wvars>>

\* The two orders in which the batch specification lists n item IDs
Ascending(n) == [i \in 1..n |-> StrId(i)]
Descending(n) == [i \in 1..n |-> StrId(n + 1 - i)]

\* State on entry to the while loop of get_beatmaps_from_map_ids, for a list
\* of n distinct item IDs
InitBatch ==
    /\ GatewayConstructed /\ WriterIdle
    /\ p_pc = "fetch"
    /\ settings \in [ignore_invalid_set_ids : BOOLEAN,
                     ignore_invalid_map_ids : BOOLEAN]
    /\ \E n \in 0..MaxIds : ids \in {Ascending(n), Descending(n)}
    /\ map_ids = {ids[i] : i \in 1..Len(ids)}
    /\ text_ids = map_ids
    /\ ids_left = Len(ids)
    /\ iteration = 0
    /\ maps = <<>>
    /\ f_lines = <<>>
    /\ set_ids = {} /\ md5s = {} /\ sets_left = {} /\ failed_sets = {}
    /\ calls = <<>> /\ error = "none"

NextBatch ==
    \/ \E ok \in BOOLEAN : FetchBatch(ok)
    \/ FetchReturn
    \/ Md5Loop

SpecBatch == InitBatch /\ [][NextBatch]_vars

(***************************************************************************)
(* md5_conversion.convert_md5s_to_db.  Strings are sequences of code       *)
(* points; the file is the sequence of bytes written so far, which is what *)
(* leaving the with block (normally or by an exception) flushes to disk.   *)
(***************************************************************************)
MaxNameLen == 256
MaxMd5s == 2

NoFile == [exists |-> FALSE, bytes |-> <<>>]

\* int.to_bytes(k, "little"), k = 1 or 4, raises OverflowError unless the
\* value is below 256^k
Fits(n, k) == IF k = 1 THEN n < 256 ELSE (n \div 65536) < 65536

ToBytesLE(n, k) ==
    LET RECURSIVE P(_)
        P(i) == IF i = 0 THEN 1 ELSE 256 * P(i - 1)
    IN [i \in 1..k |-> (n \div P(i - 1)) % 256]

\* str.encode() of one code point (UTF-8, code points below 0x800)
Utf8(cp) == IF cp < 128 THEN <<cp>>
            ELSE <<192 + (cp \div 64), 128 + (cp % 64)>>

\* str.encode()
Encode(str) ==
    LET RECURSIVE E(_, _)
        E(lo, hi) == IF lo > hi THEN <<>>
                     ELSE IF lo = hi THEN Utf8(str[lo])
                     ELSE LET mid == (lo + hi) \div 2
                          IN E(lo, mid) \o E(mid + 1, hi)
    IN E(1, Len(str))

\* f.write(...)
Write(file, bytes) == [file EXCEPT !.bytes = @ \o bytes]

\* lines 35-37: `for md5 in md5s`: b"\x0b " and the md5, entry after entry
Entries(list) ==
    LET RECURSIVE W(_)
        W(k) == IF k = 0 THEN <<>>
                ELSE W(k - 1) \o <<11, 32>> \o Encode(list[k])
    IN W(Len(list))

\* line 28: open(path, "wb") creates or truncates the file, or raises
WOpen(ok) ==
    /\ w_pc = "open"
    /\ IF ok
       THEN disk' = [exists |-> TRUE, bytes |-> <<>>] /\ w_pc' = "header"
       ELSE disk' = disk /\ w_pc' = "raised"
    /\ UNCHANGED <<name, w_md5s>>
    /\ UNCHANGED <<gvars, pvars>>

\* lines 29-32: version, number of collections, spacer, then
\* len(name).to_bytes(1, "little"), which raises when the length does not
\* fit one byte; the with block then closes the file as it is
WHeader ==
    /\ w_pc = "header"
    /\ LET head == Write(disk, <<0, 0, 0, 0>> \o ToBytesLE(1, 4) \o <<11>>)
       IN IF Fits(Len(name), 1)
          THEN /\ disk' = Write(head, ToBytesLE(Len(name), 1))
               /\ w_pc' = "body"
          ELSE /\ disk' = head
               /\ w_pc' = "raised"
    /\ UNCHANGED <<name, w_md5s>>
    /\ UNCHANGED <<gvars, pvars>>

\* lines 33-39: the name, len(md5s) on four bytes, the entries; the with
\* block is left
WBody ==
    /\ w_pc = "body"
    /\ disk' = Write(disk, Encode(name) \o ToBytesLE(Len(w_md5s), 4)
                             \o Entries(w_md5s))
    /\ w_pc' = "done"
    /\ UNCHANGED <<name, w_md5s>>
    /\ UNCHANGED <<gvars, pvars>>

\* Collection names and checksums the writer is called with
Text(n, first, rest) == [i \in 1..n |-> IF i = 1 THEN first ELSE rest]

Names ==
    {Text(n, c, 97) : n \in {0, 1, 4, 254, 255} \cup (256..MaxNameLen),
                      c \in {97, 233}}

Checksums ==
    {Text(n, c, c) : n \in {ChecksumLen - 1, ChecksumLen, ChecksumLen + 1},
                     c \in {97, 98}}

Md5Lists == UNION {[1..n -> Checksums] : n \in 0..MaxMd5s}

\* convert_md5s_to_db(s, md5s) after line 23
InitWriter ==
    /\ GatewayConstructed /\ ParserIdle
    /\ w_pc = "open"
    /\ name \in Names
    /\ w_md5s \in Md5Lists
    /\ disk = NoFile

NextWriter ==
    \/ \E ok \in BOOLEAN : WOpen(ok)
    \/ WHeader
    \/ WBody

SpecWriter == InitWriter /\ [][NextWriter]_vars

(***************************************************************************)
(* main() case 2: parse_plaintext, then convert_md5s_to_db                 *)
(***************************************************************************)
\* Settings.collection_name = "collection"
DefaultName == <<99, 111, 108, 108, 101, 99, 116, 105, 111, 110>>

\* main line 115: convert_md5s_to_db(s=s, md5s=list(parser.md5s))
Convert ==
    /\ p_pc = "parsed"
    /\ w_pc = "idle"
    /\ p_pc' = "convert"
    /\ w_pc' = "open"
    /\ name' = DefaultName
    /\ w_md5s' \in ListsOf(md5s)
    /\ disk' = disk
    /\ UNCHANGED f_lines
    /\ UNCHANGED <<settings, set_ids, map_ids, md5s, text_ids, sets_left,
                   failed_sets, ids, ids_left, iteration, maps, calls, error>>
    /\ UNCHANGED gvars

\* The classification of the input text is the choice of S and M in ParseIds
InitPipeline ==
    /\ GatewayConstructed /\ ParserConstructed /\ WriterIdle
    /\ f_lines = <<>>

NextPipeline ==
    \/ \E S \in SUBSET TextSetIds, M \in SUBSET TextMapIds : ParseIds(S, M)
    \/ \E set_id \in sets_left, ok \in BOOLEAN : SetIdStep(set_id, ok)
    \/ EnterMapIdsToMd5s
    \/ \E ok \in BOOLEAN : FetchBatch(ok)
    \/ FetchReturn
    \/ Md5Loop
    \/ Convert
    \/ \E ok \in BOOLEAN : WOpen(ok)
    \/ WHeader
    \/ WBody

SpecPipeline == InitPipeline /\ [][NextPipeline]_vars

(***************************************************************************)
(* The checksum set: map_ids_to_md5s lines 138-139 over the JSON bodies    *)
(* the batch calls returned, then main() line 115 and the writer.          *)
(***************************************************************************)
MaxBodies == 3

\* JSON bodies a batch call can come back with: an object that carries a
\* file_md5, or a list of item details
Bodies == {Detail(v) : v \in {1, 2, 3, 5}}
              \cup {BeatmapsResponse(<<StrId(1)>>)}

\* State at line 138, get_beatmaps_from_map_ids having returned maps
InitChecksums ==
    /\ GatewayConstructed /\ WriterIdle
    /\ p_pc = "md5"
    /\ settings \in [ignore_invalid_set_ids : BOOLEAN,
                     ignore_invalid_map_ids : BOOLEAN]
    /\ maps \in UNION {[1..n -> Bodies] : n \in 0..MaxBodies}
    /\ f_lines = <<>>
    /\ set_ids = {} /\ map_ids = {} /\ md5s = {} /\ text_ids = {}
    /\ sets_left = {} /\ failed_sets = {}
    /\ ids = <<>> /\ ids_left = 0 /\ iteration = 0
    /\ calls = <<>> /\ error = "none"

NextChecksums ==
    \/ Md5Loop
    \/ Convert
    \/ \E ok \in BOOLEAN : WOpen(ok)
    \/ WHeader
    \/ WBody

SpecChecksums == InitChecksums /\ [][NextChecksums]_vars

(***************************************************************************)
(* Python re, for the three patterns of ParseOsuLinksFromFile.__init__.    *)
(* A text is a sequence of one-character strings.  A pattern is a tree of  *)
(* the nodes below; Ends lists the positions at which a match starting at  *)
(* position i can end, in the order the backtracking matcher tries them,   *)
(* so its head is the match re reports.                                    *)
(***************************************************************************)
Digit == {"0", "1", "2", "3", "4", "5", "6", "7", "8", "9"}

Letter == {"a", "b", "c", "d", "e", "f", "g", "h", "i", "j", "k", "l", "m",
           "n", "o", "p", "q", "r", "s", "t", "u", "v", "w", "x", "y", "z"}

\* \w over the characters that occur in the texts
Word == Digit \cup Letter \cup {"_"}

Lit(str) == [op |-> "lit", str |-> str]
In(cs) == [op |-> "in", cs |-> cs]
Dot == [op |-> "dot"]
Bol == [op |-> "bol"]
Concat(parts) == [op |-> "cat", parts |-> parts]
Alt(parts) == [op |-> "alt", parts |-> parts]
Rep(r, lo, hi) == [op |-> "rep", r |-> r, lo |-> lo, hi |-> hi]
Opt(r) == Rep(r, 0, 1)
\* (?<=...) when want, (?<!...) otherwise, over a fixed-width run of classes
Behind(classes, want) == [op |-> "behind", classes |-> classes, want |-> want]
\* (?!...)
NotAhead(r) == [op |-> "notahead", r |-> r]

RECURSIVE Ends(_, _, _)
RECURSIVE EndsCat(_, _, _, _)
RECURSIVE EndsAlt(_, _, _, _)
RECURSIVE EndsRep(_, _, _, _)

Ends(r, s, i) ==
    CASE r.op = "lit" ->
            IF /\ i + Len(r.str) - 1 <= Len(s)
               /\ SubSeq(s, i, i + Len(r.str) - 1) = r.str
            THEN <<i + Len(r.str)>> ELSE <<>>
      [] r.op = "in" ->
            IF i <= Len(s) /\ s[i] \in r.cs THEN <<i + 1>> ELSE <<>>
      [] r.op = "dot" ->
            IF i <= Len(s) /\ s[i] # "\n" THEN <<i + 1>> ELSE <<>>
      [] r.op = "bol" ->
            IF i = 1 THEN <<i>> ELSE <<>>
      [] r.op = "behind" ->
            LET w == Len(r.classes)
                there == /\ i - w >= 1
                         /\ \A k \in 1..w : s[i - w + k - 1] \in r.classes[k]
            IN IF there = r.want THEN <<i>> ELSE <<>>
      [] r.op = "notahead" ->
            IF Ends(r.r, s, i) = <<>> THEN <<i>> ELSE <<>>
      [] r.op = "cat" -> EndsCat(r.parts, 1, s, i)
      [] r.op = "alt" -> EndsAlt(r.parts, 1, s, i)
      [] r.op = "rep" -> EndsRep(r, 0, s, i)

\* parts[k], parts[k+1], ... one after the other
EndsCat(parts, k, s, i) ==
    IF k > Len(parts) THEN <<i>>
    ELSE LET es == Ends(parts[k], s, i)
             RECURSIVE Go(_)
             Go(n) == IF n > Len(es) THEN <<>>
                      ELSE EndsCat(parts, k + 1, s, es[n]) \o Go(n + 1)
         IN Go(1)

\* parts[k] | parts[k+1] | ..., the leftmost alternative first
EndsAlt(parts, k, s, i) ==
    IF k > Len(parts) THEN <<>>
    ELSE Ends(parts[k], s, i) \o EndsAlt(parts, k + 1, s, i)

\* r.r{lo,hi}, greedy: one more repetition is tried before stopping
EndsRep(r, done, s, i) ==
    LET more == IF done >= r.hi THEN <<>>
                ELSE LET es == Ends(r.r, s, i)
                         RECURSIVE Go(_)
                         Go(n) == IF n > Len(es) THEN <<>>
                                  ELSE EndsRep(r, done + 1, s, es[n])
                                          \o Go(n + 1)
                     IN Go(1)
    IN more \o (IF done >= r.lo THEN <<i>> ELSE <<>>)

NoMatch == [found |-> FALSE, start |-> 0, end |-> 0, group |-> <<>>]

\* pattern.search(s, from): the leftmost position with a match, and there
\* the match the backtracking order reaches first
Search(r, s, from) ==
    LET starts == {p \in from..(Len(s) + 1) : Ends(r, s, p) # <<>>}
    IN IF starts = {} THEN NoMatch
       ELSE LET p == CHOOSE q \in starts : \A q2 \in starts : q <= q2
                e == Head(Ends(r, s, p))
            IN [found |-> TRUE, start |-> p, end |-> e,
                group |-> SubSeq(s, p, e - 1)]

\* [m.group(0) for m in pattern.finditer(s)]: non-overlapping, left to right
RECURSIVE FindFrom(_, _, _)
FindFrom(r, s, from) ==
    LET m == Search(r, s, from)
    IN IF ~m.found THEN <<>>
       ELSE <<m.group>>
               \o FindFrom(r, s, IF m.end = m.start THEN m.end + 1 ELSE m.end)

FindIter(r, s) == FindFrom(r, s, 1)

Digits(lo, hi) == Rep(In(Digit), lo, hi)
Words(lo, hi) == Rep(In(Word), lo, hi)

\* (#|%23)
Fragment == Alt(<<Lit(<<"#">>), Lit(<<"%", "2", "3">>)>>)

\* r"((?!(?<=ets/)\d{1,7}(#|%23))((?<=s/)\d{1,7}))"
set_id_pattern ==
    Concat(<<NotAhead(Concat(<<Behind(<<{"e"}, {"t"}, {"s"}, {"/"}>>, TRUE),
                         Digits(1, 7),
                         Fragment>>)),
          Behind(<<{"s"}, {"/"}>>, TRUE),
          Digits(1, 7)>>)

\* r"(((?<!ets/)(?<!/s/)(?<=\w/)\d{1,8}|^\d{1,8}))"
map_id_pattern ==
    Alt(<<Concat(<<Behind(<<{"e"}, {"t"}, {"s"}, {"/"}>>, FALSE),
                Behind(<<{"/"}, {"s"}, {"/"}>>, FALSE),
                Behind(<<Word, {"/"}>>, TRUE),
                Digits(1, 8)>>),
          Concat(<<Bol, Digits(1, 8)>>)>>)

\* r"(((http.{0,4})?osu\.ppy\.sh/(?!u)\w{1,11}/((\d{1,8})?((#|%23)\w"
\* r"{1,5}/\d{1,8}|\w{1,7}\?b=\d{1,8}(&m=\d)?)|\d{1,8}))|(^\d{1,8}))"
osu_link_pattern ==
    Alt(<<Concat(<<Opt(Concat(<<Lit(<<"h", "t", "t", "p">>), Rep(Dot, 0, 4)>>)),
                Lit(<<"o", "s", "u", ".", "p", "p", "y", ".", "s", "h", "/">>),
                NotAhead(Lit(<<"u">>)),
                Words(1, 11),
                Lit(<<"/">>),
                Alt(<<Concat(<<Opt(Digits(1, 8)),
                            Alt(<<Concat(<<Fragment,
                                        Words(1, 5),
                                        Lit(<<"/">>),
                                        Digits(1, 8)>>),
                                  Concat(<<Words(1, 7),
                                        Lit(<<"?", "b", "=">>),
                                        Digits(1, 8),
                                        Opt(Concat(<<Lit(<<"&", "m", "=">>),
                                                  In(Digit)>>))>>)>>)>>),
                      Digits(1, 8)>>)>>),
          Concat(<<Bol, Digits(1, 8)>>)>>)

\* lines 88-104, the body of `for link in ...finditer(f_lines)` for one
\* link.group(0): the set pattern is searched first, then the map pattern
ClassifyLink(link) ==
    LET set_id == Search(set_id_pattern, link, 1)
        map_id == Search(map_id_pattern, link, 1)
    IN IF set_id.found THEN [kind |-> "set", id |-> set_id.group]
       ELSE IF map_id.found THEN [kind |-> "map", id |-> map_id.group]
       ELSE [kind |-> "invalid", id |-> <<>>]

\* The classified references of a text, in the order of finditer
References(text) ==
    LET links == FindIter(osu_link_pattern, text)
    IN [k \in 1..Len(links) |-> ClassifyLink(links[k])]

IdsOfKind(refs, kind) ==
    {StrId(refs[k].id) : k \in {j \in 1..Len(refs) : refs[j].kind = kind}}

\* parse_ids_from_plaintext_file lines 87-104 on the text read at lines
\* 84-85; the v of a StrId is here the matched digit string itself
ParseIdsFromPlaintextFile ==
    ParseIds(IdsOfKind(References(f_lines), "set"),
             IdsOfKind(References(f_lines), "map"))

(***************************************************************************)
(* The input texts: one token, or two lines with a token on the second.    *)
(***************************************************************************)
MaxDigits == 9

DigitChars == <<"1", "2", "3", "4", "5", "6", "7", "8", "9", "0">>

\* The digit run 123... of length n
DigitRun(n) == [i \in 1..n |-> DigitChars[((i - 1) % 10) + 1]]

RunLengths == {1, 7, 8} \cup (9..MaxDigits)

Bare == <<>>
SetsPrefix ==
    <<"o", "s", "u", ".", "p", "p", "y", ".", "s", "h", "/",
      "b", "e", "a", "t", "m", "a", "p", "s", "e", "t", "s", "/">>
HttpsSetsPrefix == <<"h", "t", "t", "p", "s", ":", "/", "/">> \o SetsPrefix
ShortSetPrefix ==
    <<"o", "s", "u", ".", "p", "p", "y", ".", "s", "h", "/", "s", "/">>
ShortItemPrefix ==
    <<"o", "s", "u", ".", "p", "p", "y", ".", "s", "h", "/", "b", "/">>
ItemsPrefix ==
    <<"o", "s", "u", ".", "p", "p", "y", ".", "s", "h", "/",
      "b", "e", "a", "t", "m", "a", "p", "s", "/">>

SetPrefixes == {SetsPrefix, HttpsSetsPrefix, ShortSetPrefix}
ItemPrefixes == {ShortItemPrefix, ItemsPrefix}
Prefixes == {Bare} \cup SetPrefixes \cup ItemPrefixes

SubItemPath == <<"o", "s", "u", "/", "4", "5">>
Fragments == {<<"#">>, <<"%", "2", "3">>,
              <<"#">> \o SubItemPath, <<"%", "2", "3">> \o SubItemPath}

Tokens ==
    {pre \o DigitRun(n) \o suf :
        pre \in Prefixes, n \in RunLengths, suf \in {<<>>} \cup Fragments}

FirstLines == {<<"7">>, ShortItemPrefix \o <<"7">>}

Files == Tokens \cup {first \o <<"\n">> \o t : first \in FirstLines, t \in Tokens}

\* parse_ids_from_plaintext_file is entered on a fresh parser
InitExtract ==
    /\ GatewayConstructed /\ ParserConstructed /\ WriterIdle
    /\ f_lines \in Files

NextExtract == ParseIdsFromPlaintextFile

SpecExtract == InitExtract /\ [][NextExtract]_vars

(***************************************************************************)
(* Batch claims                                                            *)
(***************************************************************************)
Ceil(n, d) == (n + d - 1) \div d

Flatten(seqs) ==
    LET RECURSIVE Cat(_)
        Cat(k) == IF k = 0 THEN <<>> ELSE Cat(k - 1) \o seqs[k]
    IN Cat(Len(seqs))

\* get_beatmaps_from_map_ids has returned to map_ids_to_md5s
Fetched == p_pc \in {"md5", "parsed"} \/ error = "type"

\* C4: for n item IDs get_beatmaps_from_map_ids issues exactly ceil(n/50)
\* gateway calls; the k-th carries the consecutive slice ids[50k .. 50k+49],
\* every call carries 1 to 50 IDs, every ID is carried by exactly one call,
\* and n = 0 issues no call.
C4_Batching ==
    /\ \A k \in 1..Len(calls) :
          /\ Len(calls[k]) \in 1..50
          /\ k < Ceil(Len(ids), 50) => Len(calls[k]) = 50
          /\ \A i \in 1..Len(calls[k]) : calls[k][i] = ids[50 * (k - 1) + i]
    /\ Len(calls) <= Ceil(Len(ids), 50)
    /\ Fetched => /\ Len(calls) = Ceil(Len(ids), 50)
                  /\ Flatten(calls) = ids

\* C4 witness: 51 IDs were resolved with two calls of sizes 50 and 1
C4_Witness ==
    /\ Fetched
    /\ Len(ids) = 51
    /\ Len(calls) = 2
    /\ Len(calls[1]) = 50
    /\ Len(calls[2]) = 1

\* The item details returned by the batch calls, one element per item
ItemDetails ==
    Flatten([k \in 1..Len(calls) |-> BeatmapsResponse(calls[k]).items])

\* C5: the result of get_beatmaps_from_map_ids is the concatenation, in
\* batch order, of the item details returned by each batch call (one element
\* per item, not per batch), and map_ids_to_md5s adds the checksum of every
\* one of them to md5s.
C5_ResultConcatenatesItemDetails ==
    /\ Fetched => maps = ItemDetails
    /\ (p_pc = "parsed" \/ error = "type") =>
          md5s = {ItemDetails[i].file_md5 : i \in 1..Len(ItemDetails)}

(***************************************************************************)
(* Pipeline claims                                                         *)
(***************************************************************************)
\* The item references the set references resolved so far have contributed
ResolvedMembers ==
    UNION {BeatmapIds(SetMembers(s.v)) :
              s \in (set_ids \ sets_left) \ failed_sets}

\* C6: with ignore_invalid_set_ids = true, a failed gateway call for one set
\* reference adds no item reference for that set, leaves the item references
\* collected so far unchanged, every remaining set reference is still
\* resolved, and no error reaches the caller.
C6_IgnoredSetFailure ==
    settings.ignore_invalid_set_ids =>
        /\ error # "set"
        /\ map_ids = text_ids \cup ResolvedMembers
        /\ p_pc \notin {"parse", "sets"} => sets_left = {}

\* C6 witness: one set reference failed, the other one was resolved, and the
\* run went on to checksum resolution
C6_Witness ==
    /\ settings.ignore_invalid_set_ids
    /\ failed_sets = {StrId(10)}
    /\ set_ids = {StrId(10), StrId(11)}
    /\ IntId(3) \in map_ids
    /\ p_pc = "fetch"

\* C7: with ignore_invalid_set_ids = false, a failed gateway call for a set
\* reference propagates out of parse_plaintext and aborts the run: no
\* checksum-resolution call is issued and no collection file is written.
\* The collection file is written only after classification, set resolution
\* and checksum resolution have completed without a propagated error.
C7_SetFailureAborts ==
    /\ (~settings.ignore_invalid_set_ids /\ failed_sets # {}) =>
          /\ p_pc = "raised"
          /\ error = "set"
          /\ calls = <<>>
          /\ w_pc = "idle"
          /\ ~disk.exists
    /\ disk.exists =>
          /\ p_pc = "convert"
          /\ error = "none"
          /\ sets_left = {}
          /\ ids_left <= 0

\* C7 witness: the second of two set references failed and the run stopped
C7_Witness ==
    /\ ~settings.ignore_invalid_set_ids
    /\ failed_sets # {}
    /\ Cardinality(sets_left) = 1
    /\ Cardinality(set_ids) = 2
    /\ p_pc = "raised"

\* C8: with ignore_invalid_map_ids = true, a failed gateway call during
\* checksum resolution does not abort the run; the error aborts the run only
\* when that flag is false.
C8_IgnoredMapFailure ==
    settings.ignore_invalid_map_ids => error # "map"

(***************************************************************************)
(* Writer claims                                                           *)
(***************************************************************************)
\* The bytes follow the collection file layout: version, collection count
\* 1, 0x0B, one length byte, the name, the entry count, then 34-byte entries
\* 0x0B 0x20 <32 bytes>, and nothing else
Conforms(b) ==
    /\ Len(b) >= 10
    /\ SubSeq(b, 1, 9) = <<0, 0, 0, 0, 1, 0, 0, 0, 11>>
    /\ LET L == b[10]
           rest == Len(b) - (14 + L)
       IN /\ rest >= 0
          /\ rest % (ChecksumLen + 2) = 0
          /\ SubSeq(b, 11 + L, 14 + L) = ToBytesLE(rest \div (ChecksumLen + 2), 4)
          /\ \A e \in 0..((rest \div (ChecksumLen + 2)) - 1) :
                /\ b[15 + L + (ChecksumLen + 2) * e] = 11
                /\ b[16 + L + (ChecksumLen + 2) * e] = 32

\* C9: every invocation of convert_md5s_to_db either leaves a complete file
\* that conforms to the binary layout, or ends with an error and leaves no
\* partially written file at the destination.
C9_CompleteFileOrNone ==
    /\ w_pc = "raised" => ~disk.exists
    /\ w_pc = "done" => (disk.exists /\ Conforms(disk.bytes))

\* C10: writing a collection that contains a checksum whose length is not
\* exactly 32 bytes fails and aborts the write, so that in every file the
\* writer produces each entry occupies exactly 34 bytes.
C10_BadChecksumAborts ==
    w_pc = "done" =>
        /\ \A i \in 1..Len(w_md5s) : Len(Encode(w_md5s[i])) = ChecksumLen
        /\ Len(disk.bytes) =
              14 + Len(Encode(name)) + (ChecksumLen + 2) * Len(w_md5s)

\* Every checksum handed to the writer encodes to 32 bytes
AllChecksums32 ==
    \A i \in 1..Len(w_md5s) : Len(Encode(w_md5s[i])) = ChecksumLen

\* The collection file layout for a name and a list of checksums, both given
\* as encoded bytes: int32 LE 0, int32 LE 1, 0x0B, the byte length of the
\* name, the name, int32 LE n, then 0x0B 0x20 <checksum> per entry
Layout(nameBytes, sums) ==
    LET RECURSIVE Body(_)
        Body(k) == IF k = 0 THEN <<>>
                   ELSE Body(k - 1) \o <<11, 32>> \o sums[k]
    IN <<0, 0, 0, 0>> \o <<1, 0, 0, 0>> \o <<11>> \o <<Len(nameBytes)>>
         \o nameBytes \o ToBytesLE(Len(sums), 4) \o Body(Len(sums))

\* C11: for every collection name whose encoded form is at most 255 bytes
\* and every list of n 32-byte checksums, the bytes written by
\* convert_md5s_to_db are exactly int32 LE 0, int32 LE 1, 0x0B, one byte
\* holding the byte length of the encoded name, the name bytes, int32 LE n,
\* then per checksum in list order 0x0B, 0x20 and the 32 checksum bytes,
\* with nothing before, between or after.
C11_ExactBytes ==
    (w_pc = "done" /\ Len(Encode(name)) <= 255 /\ AllChecksums32) =>
        disk.bytes = Layout(Encode(name),
                            [i \in 1..Len(w_md5s) |-> Encode(w_md5s[i])])

\* What a reader of the layout returns when the bytes do not follow it
Unreadable == [ok |-> FALSE, name |-> <<>>, checksums |-> <<>>]

\* A reader of the layout: the fixed nine bytes, the length byte L, L name
\* bytes, the entry count on four bytes, then that many 34-byte entries and
\* the end of the file.  Files here are far shorter than 2^16 entries, so a
\* count with a non-zero upper half cannot be followed by that many entries.
Decode(b) ==
    IF Len(b) < 10 \/ SubSeq(b, 1, 9) # <<0, 0, 0, 0, 1, 0, 0, 0, 11>>
    THEN Unreadable
    ELSE LET L == b[10]
         IN IF Len(b) < 14 + L \/ b[13 + L] # 0 \/ b[14 + L] # 0
            THEN Unreadable
            ELSE LET n == b[11 + L] + 256 * b[12 + L]
                     at(e) == 14 + L + (ChecksumLen + 2) * (e - 1)
                 IN IF \/ Len(b) # 14 + L + (ChecksumLen + 2) * n
                       \/ \E e \in 1..n : b[at(e) + 1] # 11 \/ b[at(e) + 2] # 32
                    THEN Unreadable
                    ELSE [ok |-> TRUE,
                          name |-> SubSeq(b, 11, 10 + L),
                          checksums |->
                              [e \in 1..n |->
                                  SubSeq(b, at(e) + 3, at(e) + 2 + ChecksumLen)]]

\* C12: round trip: for every name and every sequence of 32-byte checksums,
\* decoding the bytes convert_md5s_to_db produced with a reader that follows
\* the layout yields the same name and the same checksums in the same order
\* (names and checksums are compared by their UTF-8 encodings, which
\* determine them).
C12_RoundTrip ==
    (w_pc = "done" /\ AllChecksums32) =>
        Decode(disk.bytes) =
            [ok |-> TRUE,
             name |-> Encode(name),
             checksums |-> [i \in 1..Len(w_md5s) |-> Encode(w_md5s[i])]]

(***************************************************************************)
(* End-to-end claims                                                       *)
(***************************************************************************)
\* The distinct elements of a sequence, in order of first occurrence
FirstSeen(seq) ==
    LET RECURSIVE F(_)
        F(k) == IF k = 0 THEN <<>>
                ELSE IF \E j \in 1..(k - 1) : seq[j] = seq[k] THEN F(k - 1)
                ELSE Append(F(k - 1), seq[k])
    IN F(Len(seq))

\* The checksums of the item details the references resolved to, in
\* resolution order
ResolvedChecksums ==
    [i \in 1..Len(ItemDetails) |-> ItemDetails[i].file_md5]

\* C13: end to end, for an input whose references resolve to item details
\* with checksums c1..ck, the run is not aborted by the checksum resolution
\* and the written file has collection count 1, an entry count equal to the
\* number of distinct checksums, and exactly those distinct checksums as
\* entries in resolution (first-seen) order.
C13_EndToEnd ==
    /\ error # "type"
    /\ w_pc = "done" =>
          disk.bytes =
              Layout(Encode(DefaultName),
                     [i \in 1..Len(FirstSeen(ResolvedChecksums)) |->
                         Encode(FirstSeen(ResolvedChecksums)[i])])

(***************************************************************************)
(* Checksum set claims                                                     *)
(***************************************************************************)
\* C19: adding a checksum to the accumulated checksum set is idempotent
\* (the set holds each checksum of the resolved bodies once, however often
\* it was added), and the checksum sequence handed to the writer holds
\* exactly the checksums of the set, without duplicates.
C19_NoDuplicateChecksums ==
    /\ p_pc \in {"parsed", "convert"} =>
          /\ md5s = {maps[i].file_md5 : i \in 1..Len(maps)}
          /\ Cardinality(md5s) =
                Len(FirstSeen([i \in 1..Len(maps) |-> maps[i].file_md5]))
    /\ p_pc = "convert" =>
          /\ Len(w_md5s) = Cardinality(md5s)
          /\ {w_md5s[i] : i \in 1..Len(w_md5s)} = md5s
          /\ \A i, j \in 1..Len(w_md5s) : i # j => w_md5s[i] # w_md5s[j]

\* C19 witness: three bodies carried two distinct checksums, one of them
\* added twice, and the file with the two entries was written
C19_Witness ==
    /\ Len(maps) = 3
    /\ Cardinality(md5s) = 2
    /\ Len(w_md5s) = 2
    /\ w_pc = "done"

(***************************************************************************)
(* Classification claims.  parse_ids_from_plaintext_file has returned when *)
(* p_pc = "sets"; each claim speaks of the files that consist of (or end   *)
(* with a line holding) a token of the shape it names.                     *)
(***************************************************************************)
Classified == p_pc = "sets"

NewLine == <<"\n">>

\* C14: for every token that names a set container ("...sets/<digits>" or
\* the short form "s/<digits>") with 1 to 8 digits and no trailing
\* fragment, exactly one set reference is recorded, its ID is the complete
\* digit run of the token (not a prefix of it), and no item reference is
\* recorded.
C14_SetTokenYieldsSetReference ==
    Classified =>
        \A pre \in SetPrefixes, n \in 1..8 :
            f_lines = pre \o DigitRun(n) =>
                /\ set_ids = {StrId(DigitRun(n))}
                /\ map_ids = {}

\* C15: for every set-container token immediately followed by a fragment
\* delimiter ("#" or "%23", with or without a following sub-item path),
\* classification yields Rejected: nothing is added to set_ids and nothing
\* is added to map_ids.
C15_SetTokenWithFragmentRejected ==
    Classified =>
        \A pre \in SetPrefixes, n \in 1..8, frag \in Fragments :
            f_lines = pre \o DigitRun(n) \o frag =>
                /\ set_ids = {}
                /\ map_ids = {}

\* C16: a line that consists of a bare digit run of length 1 to 8 yields an
\* item reference with that ID, on whichever line of the file it stands
\* (here: alone in the file, or on the second line).
C16_BareDigitLineYieldsItemReference ==
    Classified =>
        \A n \in 1..8 :
            /\ f_lines = DigitRun(n) => StrId(DigitRun(n)) \in map_ids
            /\ \A first \in FirstLines :
                  f_lines = first \o NewLine \o DigitRun(n) =>
                      StrId(DigitRun(n)) \in map_ids

\* C17: a digit run longer than 8 digits, bare or following a path segment,
\* does not match and produces no reference: no set reference and no item
\* reference is recorded, in particular none whose ID is a prefix of the
\* run.
C17_LongDigitRunYieldsNothing ==
    Classified =>
        \A pre \in Prefixes, n \in 9..MaxDigits :
            f_lines = pre \o DigitRun(n) =>
                /\ set_ids = {}
                /\ map_ids = {}

\* C18: for every token "osu.ppy.sh/<segment>/<digits>" whose single path
\* segment is not a set-container segment ("b", "beatmaps") and which has
\* no fragment delimiter, classification yields an item reference with that
\* ID and never a set reference.
C18_ItemTokenYieldsItemReference ==
    Classified =>
        \A pre \in ItemPrefixes, n \in 1..8 :
            f_lines = pre \o DigitRun(n) =>
                /\ map_ids = {StrId(DigitRun(n))}
                /\ set_ids = {}

(***************************************************************************)
(* Item reference claims                                                   *)
(***************************************************************************)
\* The item IDs sent to the checksum service, batch after batch
SentIds == Flatten(calls)

\* C21: the item IDs sent to the checksum service are deduplicated: an item
\* ID that appears both in the input text and as a member of a resolved set
\* (or in two resolved sets) occurs in the batches of
\* get_beatmaps_from_map_ids exactly once.
C21_ItemIdsSentOnce ==
    \A i, j \in 1..Len(SentIds) : i # j => SentIds[i].v # SentIds[j].v

(***************************************************************************)
(* Permit and refresh claims                                               *)
(***************************************************************************)
\* Permits caller c has taken from the semaphore and not yet handed to a
\* return timer: one for the call it is in, one more for the nested
\* credential exchange
Held(c) ==
    CASE pc[c] \in {"check", "start", "auth_acquire", "request"} -> 1
      [] pc[c] = "auth_request" -> 2
      [] OTHER -> 0

\* C22: permit conservation: in every reachable state free permits +
\* permits held by in-flight calls + permits awaiting a pending return timer
\* = limit, so each admitted call returns its permit exactly once, through
\* a timer started when the call ends, whether it returned or raised.
C22_PermitConservation ==
    /\ semaphore \in 0..limit
    /\ semaphore + Sum([c \in Callers |-> Held(c)], Callers)
                 + Sum(timers, 0..every) = limit

\* C22 witness: a refresh raised; the permits of the call and of the nested
\* exchange both sit on return timers and no call is in flight
C22_Witness ==
    /\ starting
    /\ \A c \in Callers : pc[c] = "idle"
    /\ Sum(timers, 0..every) >= 2
    /\ semaphore = limit - Sum(timers, 0..every)

\* The step in which caller c passes line 81 without calling start()
SkipsRefresh(c) == pc[c] = "check" /\ pc'[c] = "request"

\* C23: a failed credential refresh does not disable refreshing: an osu-API
\* call made while the credential is expired goes on to send its request
\* without refreshing only if another caller's refresh is in progress.
C23_RefreshRetriedAfterFailure ==
    [][\A c \in Callers :
          (SkipsRefresh(c) /\ expired) =>
              \E d \in Callers \ {c} : Refreshing(d)]_vars
====
